---- MODULE Spec2Model ----
(***************************************************************************)
(* A model of the Trello MCP server core: the sliding-window RateLimiter   *)
(* (trello_client.py), the CredentialManager (credential_manager.py), the  *)
(* tool dispatcher TrelloTools.execute_tool (tools.py) and the tools/call  *)
(* handler of TrelloMCPServer (mcp_server.py).                             *)
(*                                                                         *)
(* Time is a discrete clock `now`; time.time() and datetime.now() both     *)
(* read it.  Coroutines run on one asyncio event loop, so every action is  *)
(* the code between two suspension points.                                 *)
(***************************************************************************)
EXTENDS Integers, Sequences, FiniteSets, TLC

\* ------------------------------------------------------------------------
\* Bounds of the model (scaled-down configuration and input sizes)
\* ------------------------------------------------------------------------
MaxRequests == 2
TimeWindow == 2
CacheDuration == 2
MaxResolutions == 2

MaxTime == CacheDuration + TimeWindow
NumCallers == MaxRequests + 1

Tasks == 1..NumCallers

\* Python's None for a string-valued slot, and for a datetime slot.
NONE == "None"
NoTime == -1
NoCredentials == [api_key |-> NONE, token |-> NONE]

VARIABLES
    now,                    \* the clock read by time.time() / datetime.now()
    requests,               \* RateLimiter.requests
    lock,                   \* RateLimiter._lock: 0 when free, else the holder
    pc,                     \* position of every task
    wake,                   \* end of a task's asyncio.sleep(wait_time)
    admitted,               \* history: every timestamp ever recorded
    cached_credentials,     \* CredentialManager.cached_credentials
    credentials_timestamp,  \* CredentialManager.credentials_timestamp
    prompts,                \* number of prompt_for_credentials invocations
    hist,                   \* history of direct resolutions (SpecCred)
    tools,                  \* TrelloMCPServer.tools is constructed
    call,                   \* per task: the tools/call request being handled
    creds,                  \* per task: the resolved TrelloCredentials
    phase,                  \* per task: "validate" or "operate"
    sent,                   \* per task: upstream requests issued
    resp,                   \* per task: the response envelope
    req,                    \* per task: the request envelope being handled
    rid,                    \* per task: the id carried by the response
    last,                   \* per task: how its last _make_request ended
    initialized,            \* TrelloMCPServer.initialized
    startup,                \* "created", then how initialize() ended
    query                   \* per task: parameters built by update_card

vars == <<now, requests, lock, pc, wake, admitted, cached_credentials,
          credentials_timestamp, prompts, hist, tools, call, creds, phase,
          sent, resp, req, rid, last, initialized, startup, query>>

limiterVars == <<requests, lock, wake, admitted>>
credVars == <<cached_credentials, credentials_timestamp, prompts, hist>>
callVars == <<tools, call, creds, phase, sent, resp, req, rid, last,
              initialized, startup, query>>

\* ------------------------------------------------------------------------
\* RateLimiter (trello_client.py)
\* ------------------------------------------------------------------------
max_requests == MaxRequests
time_window == TimeWindow

RECURSIVE SeqMin(_)
SeqMin(s) ==
    IF Len(s) = 1 THEN s[1]
    ELSE LET m == SeqMin(Tail(s)) IN IF s[1] < m THEN s[1] ELSE m

\* requests still inside the trailing window at time t (lines 41-42)
InWindow(t, req_time) == t - req_time < time_window

Prune_Nothing(reqs, t) == reqs

Prune(reqs, t) == SelectSeq(reqs, LAMBDA req_time : InWindow(t, req_time))

LimitReached_OffByOne(reqs) == Len(reqs) > max_requests

\* the window is full: no further admission now (line 45)
LimitReached(reqs) == Len(reqs) >= max_requests

\* line 48
WaitTime(reqs, t) == time_window - (t - SeqMin(reqs))

AcquireBody_NoLock(c, after) ==
    /\ pc[c] = "acquire"
    /\ LET pruned == Prune(requests, now) IN
         IF LimitReached(pruned) /\ WaitTime(pruned, now) > 0
         THEN /\ requests' = pruned
              /\ lock' = c
              /\ wake' = [wake EXCEPT ![c] = now + WaitTime(pruned, now)]
              /\ pc' = [pc EXCEPT ![c] = "sleep"]
              /\ UNCHANGED admitted
         ELSE /\ requests' = Append(pruned, now)
              /\ admitted' = Append(admitted, now)
              /\ lock' = 0
              /\ pc' = [pc EXCEPT ![c] = after]
              /\ UNCHANGED wake

\* The task holding pc = "acquire" enters `async with self._lock`.  The lock
\* is an asyncio.Lock, which is not reentrant: it is taken only when free.
\* From there to the next suspension point the code runs atomically: either
\* the timestamp is appended and the lock released, or the task goes to
\* sleep inside the `async with` block, still holding the lock.
AcquireBody(c, after) ==
    /\ pc[c] = "acquire"
    /\ lock = 0
    /\ LET pruned == Prune(requests, now) IN
         IF LimitReached(pruned) /\ WaitTime(pruned, now) > 0
         THEN /\ requests' = pruned
              /\ lock' = c
              /\ wake' = [wake EXCEPT ![c] = now + WaitTime(pruned, now)]
              /\ pc' = [pc EXCEPT ![c] = "sleep"]
              /\ UNCHANGED admitted
         ELSE /\ requests' = Append(pruned, now)
              /\ admitted' = Append(admitted, now)
              /\ lock' = 0
              /\ pc' = [pc EXCEPT ![c] = after]
              /\ UNCHANGED wake

\* asyncio.sleep(wait_time) is over; line 52 calls self.acquire() again from
\* inside the `async with` block, so the task now waits for the lock while
\* it is itself the holder.
AcquireWake(c) ==
    /\ pc[c] = "sleep"
    /\ now >= wake[c]
    /\ pc' = [pc EXCEPT ![c] = "acquire"]
    /\ UNCHANGED <<now, requests, lock, wake, admitted>>
    /\ UNCHANGED credVars
    /\ UNCHANGED callVars

\* a caller invokes RateLimiter.acquire() directly
AcquireCall(c) ==
    /\ pc[c] = "idle"
    /\ now + time_window <= MaxTime
    /\ pc' = [pc EXCEPT ![c] = "acquire"]
    /\ UNCHANGED <<now, requests, lock, wake, admitted>>
    /\ UNCHANGED credVars
    /\ UNCHANGED callVars

\* ... and the call returns once the admission is recorded
AcquireDirect(c) ==
    /\ AcquireBody(c, "admitted")
    /\ UNCHANGED now
    /\ UNCHANGED credVars
    /\ UNCHANGED callVars

Tick ==
    /\ now < MaxTime
    /\ now' = now + 1
    /\ UNCHANGED <<requests, lock, pc, wake, admitted>>
    /\ UNCHANGED credVars
    /\ UNCHANGED callVars

NoCall == [name |-> NONE, api_key |-> NONE, token |-> NONE, present |-> {}]
NoResp == [kind |-> "none", code |-> 0, isError |-> FALSE, text |-> NONE,
           detail |-> NONE, keys |-> {}]
NoReq == [method |-> NONE, id |-> NONE, params |-> "absent",
          version |-> NONE]
\* the optional fields of update_card (schemas.py 115-122)
UpdateFields == {"name", "desc", "closed", "list_id", "pos", "due"}
NoQuery == [args |-> [f \in UpdateFields |-> "omitted"],
            params |-> [f \in UpdateFields |-> "absent"],
            refused |-> FALSE]
NoResult == [exc |-> NONE, msg |-> NONE, status |-> NONE, value |-> NONE,
             data |-> NONE]

InitCommon ==
    /\ now = 0
    /\ requests = <<>>
    /\ lock = 0
    /\ pc = [c \in Tasks |-> "idle"]
    /\ wake = [c \in Tasks |-> 0]
    /\ admitted = <<>>
    /\ prompts = 0
    /\ hist = <<>>
    /\ call = [c \in Tasks |-> NoCall]
    /\ creds = [c \in Tasks |-> NoCredentials]
    /\ phase = [c \in Tasks |-> NONE]
    /\ sent = [c \in Tasks |-> <<>>]
    /\ resp = [c \in Tasks |-> NoResp]
    /\ req = [c \in Tasks |-> NoReq]
    /\ rid = [c \in Tasks |-> NONE]
    /\ last = [c \in Tasks |-> NoResult]
    /\ query = [c \in Tasks |-> NoQuery]

InitLimiter ==
    /\ InitCommon
    /\ cached_credentials = NoCredentials
    /\ credentials_timestamp = NoTime
    /\ tools = FALSE
    /\ initialized = FALSE
    /\ startup = "created"

NextLimiter ==
    \/ Tick
    \/ \E c \in Tasks : AcquireCall(c)
    \/ \E c \in Tasks : AcquireDirect(c)
    \/ \E c \in Tasks : AcquireWake(c)

SpecLimiter == InitLimiter /\ [][NextLimiter]_vars

\* asyncio runs every ready coroutine, wakes sleepers when their time has
\* come and hands a released lock to a waiter; the clock always advances.
SpecLimiterFair ==
    /\ SpecLimiter
    /\ WF_vars(Tick)
    /\ \A c \in Tasks : WF_vars(AcquireDirect(c))
    /\ \A c \in Tasks : WF_vars(AcquireWake(c))

\* ------------------------------------------------------------------------
\* CredentialManager (credential_manager.py)
\* ------------------------------------------------------------------------
cache_duration == CacheDuration

\* Python truthiness of an Optional[str]: None and "" are false
Truthy_NoneOnly(s) == s # NONE

Truthy(s) == s \notin {NONE, ""}

\* the values a caller can pass for api_key and for token
ApiKeys == {NONE, "", "K1"}
Tokens == {NONE, "", "T1"}

\* what input() can do inside prompt_for_credentials: the user types a pair
\* (both at least 32 characters, or the loops ask again), or stdin is closed
\* and input() raises EOFError
PromptPair == [api_key |-> "KP", token |-> "TP"]
EnvPair == [api_key |-> "ENVU", token |-> "ENVP"]
PromptOutcomes == {"pair", "EOFError"}

\* the cache slot as a pair of fields
Cache(cc, ts) == [cc |-> cc, ts |-> ts]
EmptyCache == Cache(NoCredentials, NoTime)

\* lines 56-73: both fields are (re)written, the timestamp is datetime.now()
cache_credentials(api_key, token, t) ==
    Cache([api_key |-> api_key, token |-> token], t)

Expired_AtDuration(ts, t) == t - ts >= cache_duration

\* line 48: the entry is expired when its age exceeds cache_duration
Expired(ts, t) == t - ts > cache_duration

\* lines 43-54: returns the verdict and the cache it leaves behind (an
\* expired entry is dropped as a side effect)
is_cached_valid(c, t) ==
    IF c.cc = NoCredentials \/ c.ts = NoTime
    THEN [valid |-> FALSE, cache |-> c]
    ELSE IF Expired(c.ts, t)
         THEN [valid |-> FALSE, cache |-> EmptyCache]
         ELSE [valid |-> TRUE, cache |-> c]

\* lines 75-87
get_cached_credentials_Touch(c, t) ==
    LET v == is_cached_valid(c, t) IN
    [pair |-> IF v.valid /\ v.cache.cc # NoCredentials
              THEN v.cache.cc ELSE NoCredentials,
     cache |-> IF v.valid THEN Cache(v.cache.cc, t) ELSE v.cache]

get_cached_credentials(c, t) ==
    LET v == is_cached_valid(c, t) IN
    [pair |-> IF v.valid /\ v.cache.cc # NoCredentials
              THEN v.cache.cc ELSE NoCredentials,
     cache |-> v.cache]

prompt_for_credentials_NotCached(c, t, outcome) ==
    IF outcome = "pair"
    THEN [ret |-> PromptPair, raised |-> FALSE, cache |-> c]
    ELSE [ret |-> NoCredentials, raised |-> TRUE, cache |-> c]

\* lines 128-179, given what input() does
prompt_for_credentials(c, t, outcome) ==
    IF outcome = "pair"
    THEN [ret |-> PromptPair, raised |-> FALSE,
          cache |-> cache_credentials(PromptPair.api_key, PromptPair.token, t)]
    ELSE [ret |-> NoCredentials, raised |-> TRUE, cache |-> c]

UseProvided_Either(api_key, token) == Truthy(api_key) \/ Truthy(token)

\* lines 112-116
UseProvided(api_key, token) == Truthy(api_key) /\ Truthy(token)

get_or_prompt_credentials_CacheFirst(c, t, api_key, token, outcome) ==
    LET cached == get_cached_credentials(c, t) IN
    IF cached.pair # NoCredentials
    THEN [ret |-> cached.pair, raised |-> FALSE, cache |-> cached.cache,
          source |-> "cached"]
    ELSE IF UseProvided(api_key, token)
         THEN [ret |-> [api_key |-> api_key, token |-> token],
               raised |-> FALSE,
               cache |-> cache_credentials(api_key, token, t),
               source |-> "provided"]
         ELSE LET p == prompt_for_credentials(cached.cache, t, outcome) IN
              [ret |-> p.ret, raised |-> p.raised, cache |-> p.cache,
               source |-> "prompt"]

\* lines 89-126: `source` names the branch taken
get_or_prompt_credentials(c, t, api_key, token, outcome) ==
    IF UseProvided(api_key, token)
    THEN [ret |-> [api_key |-> api_key, token |-> token], raised |-> FALSE,
          cache |-> cache_credentials(api_key, token, t),
          source |-> "provided"]
    ELSE LET cached == get_cached_credentials(c, t) IN
         IF cached.pair # NoCredentials
         THEN [ret |-> cached.pair, raised |-> FALSE, cache |-> cached.cache,
               source |-> "cached"]
         ELSE LET p == prompt_for_credentials(cached.cache, t, outcome) IN
              [ret |-> p.ret, raised |-> p.raised, cache |-> p.cache,
               source |-> "prompt"]

\* lines 190-194
clear_credentials_TimestampOnly == Cache(cached_credentials, NoTime)

clear_credentials == EmptyCache

CurrentCache == Cache(cached_credentials, credentials_timestamp)

SetCache(c) ==
    /\ cached_credentials' = c.cc
    /\ credentials_timestamp' = c.ts

\* a direct call of get_or_prompt_credentials(api_key, token)
Resolve(api_key, token, outcome) ==
    /\ Len(hist) < MaxResolutions
    /\ LET r == get_or_prompt_credentials(CurrentCache, now, api_key, token,
                                          outcome) IN
         /\ SetCache(r.cache)
         /\ prompts' = prompts + (IF r.source = "prompt" THEN 1 ELSE 0)
         /\ hist' = Append(hist,
                [api_key |-> api_key, token |-> token, at |-> now,
                 before |-> CurrentCache, after |-> r.cache, ret |-> r.ret,
                 raised |-> r.raised, outcome |-> outcome,
                 prompted |-> prompts' # prompts])
    /\ UNCHANGED <<now, pc>>
    /\ UNCHANGED limiterVars
    /\ UNCHANGED callVars

\* a direct call of clear_credentials()
Clear ==
    /\ CurrentCache # EmptyCache
    /\ SetCache(clear_credentials)
    /\ UNCHANGED <<now, pc, prompts, hist>>
    /\ UNCHANGED limiterVars
    /\ UNCHANGED callVars

\* CredentialManager.__init__, lines 29-41: the cache starts empty, or holds
\* the pair taken from the environment when both variables are set
InitCache ==
    \/ /\ cached_credentials = NoCredentials
       /\ credentials_timestamp = NoTime
    \/ /\ cached_credentials = EnvPair
       /\ credentials_timestamp = 0

InitCred ==
    /\ InitCommon
    /\ InitCache
    /\ tools = FALSE
    /\ initialized = FALSE
    /\ startup = "created"

NextCred ==
    \/ Tick
    \/ Clear
    \/ \E k \in ApiKeys, t \in Tokens, o \in PromptOutcomes : Resolve(k, t, o)

SpecCred == InitCred /\ [][NextCred]_vars

\* ------------------------------------------------------------------------
\* TrelloTools (tools.py), TrelloClient (trello_client.py) and the
\* tools/call handler (mcp_server.py)
\* ------------------------------------------------------------------------
\* the catalog of get_tools(), lines 36-236, with each tool's required list
ToolNames ==
    {"list_boards", "get_board", "create_board", "update_board", "get_lists",
     "create_list", "get_cards", "create_card", "update_card",
     "add_member_to_card", "search_cards"}

\* the names execute_tool routes to a handler (tools.py 266-288)
HandlerNames_WithoutSearch ==
    {"list_boards", "get_board", "create_board", "update_board", "get_lists",
     "create_list", "get_cards", "create_card", "update_card",
     "add_member_to_card"}

HandlerNames ==
    {"list_boards", "get_board", "create_board", "update_board", "get_lists",
     "create_list", "get_cards", "create_card", "update_card",
     "add_member_to_card", "search_cards"}

Required_WithKey(name) ==
    CASE name = "list_boards" -> {"api_key"}
      [] name = "get_board" -> {"board_id"}
      [] name = "create_board" -> {"name"}
      [] name = "update_board" -> {"board_id"}
      [] name = "get_lists" -> {"board_id"}
      [] name = "create_list" -> {"name", "board_id"}
      [] name = "get_cards" -> {}
      [] name = "create_card" -> {"name", "list_id"}
      [] name = "update_card" -> {"card_id"}
      [] name = "add_member_to_card" -> {"card_id", "member_id"}
      [] name = "search_cards" -> {"query"}
      [] OTHER -> {}

Required(name) ==
    CASE name = "list_boards" -> {}
      [] name = "get_board" -> {"board_id"}
      [] name = "create_board" -> {"name"}
      [] name = "update_board" -> {"board_id"}
      [] name = "get_lists" -> {"board_id"}
      [] name = "create_list" -> {"name", "board_id"}
      [] name = "get_cards" -> {}
      [] name = "create_card" -> {"name", "list_id"}
      [] name = "update_card" -> {"card_id"}
      [] name = "add_member_to_card" -> {"card_id", "member_id"}
      [] name = "search_cards" -> {"query"}
      [] OTHER -> {}

\* the parameters a call may carry besides the credentials: the required
\* ones and the two alternatives of get_cards
Params(name) ==
    IF name = "get_cards" THEN {"board_id", "list_id"} ELSE Required(name)

\* tool names a client can send: the catalog, a name outside it, no name
UnknownName == "no_such_tool"
CallNames == ToolNames \cup {UnknownName, "", NONE}

\* what the upstream can do with one HTTP request: answer with a status, or
\* the connection fails (aiohttp.ClientError), or the 30 s total timeout
\* expires (asyncio.TimeoutError, which is not a ClientError)
Outcomes ==
    {"200", "200text", "201", "401", "403", "404", "429", "500",
     "ClientError", "TimeoutError"}

\* the HTTP status of an answer ("200text": status 200, body not JSON)
Status(outcome) ==
    CASE outcome = "200text" -> "200"
      [] outcome \in {"ClientError", "TimeoutError"} -> NONE
      [] OTHER -> outcome

TrelloAPIError_NoBody(msg, status, data) ==
    [exc |-> "TrelloAPIError", msg |-> msg, status |-> status,
     value |-> NONE, data |-> NONE]

\* a TrelloAPIError(message, status_code, response_data), lines 58-64
TrelloAPIError(msg, status, data) ==
    [exc |-> "TrelloAPIError", msg |-> msg, status |-> status,
     value |-> NONE, data |-> data]

\* TrelloClient._make_request, lines 120-172: the status is mapped to the
\* returned value or to the exception raised
make_request_ForbiddenAsOther(outcome) ==
    CASE Status(outcome) = "200" ->
            [exc |-> NONE, msg |-> NONE, status |-> "200",
             value |-> IF outcome = "200" THEN "json" ELSE "wrapped text",
             data |-> NONE]
      [] outcome = "401" -> TrelloAPIError("Unauthorized", "401", "body")
      [] outcome = "404" -> TrelloAPIError("Not found", "404", "body")
      [] outcome = "429" ->
            TrelloAPIError("Rate limit exceeded", "429", "body")
      [] outcome = "ClientError" -> TrelloAPIError("Network error", NONE, NONE)
      [] outcome = "TimeoutError" ->
            [exc |-> "TimeoutError", msg |-> "", status |-> NONE,
             value |-> NONE, data |-> NONE]
      [] OTHER ->
            TrelloAPIError("API request failed", Status(outcome), "body")

make_request(outcome) ==
    CASE outcome = "200" ->
            [exc |-> NONE, msg |-> NONE, status |-> "200",
             value |-> "json", data |-> NONE]
      [] outcome = "200text" ->
            [exc |-> NONE, msg |-> NONE, status |-> "200",
             value |-> "wrapped text", data |-> NONE]
      [] outcome = "401" -> TrelloAPIError("Unauthorized", "401", "body")
      [] outcome = "403" -> TrelloAPIError("Forbidden", "403", "body")
      [] outcome = "404" -> TrelloAPIError("Not found", "404", "body")
      [] outcome = "429" ->
            TrelloAPIError("Rate limit exceeded", "429", "body")
      [] outcome = "ClientError" -> TrelloAPIError("Network error", NONE, NONE)
      [] outcome = "TimeoutError" ->
            [exc |-> "TimeoutError", msg |-> "", status |-> NONE,
             value |-> NONE, data |-> NONE]
      [] OTHER ->
            TrelloAPIError("API request failed", Status(outcome), "body")

\* the two envelope shapes of mcp_server.py
ResultResponse(isError, text, detail) ==
    [kind |-> "result", code |-> 0, isError |-> isError, text |-> text,
     detail |-> detail, keys |-> {"jsonrpc", "id", "result"}]

\* lines 224-233
create_error_response_WithResult(code, message) ==
    [kind |-> "error", code |-> code, isError |-> FALSE, text |-> message,
     detail |-> NONE, keys |-> {"jsonrpc", "id", "result", "error"}]

create_error_response(code, message) ==
    [kind |-> "error", code |-> code, isError |-> FALSE, text |-> message,
     detail |-> NONE, keys |-> {"jsonrpc", "id", "error"}]

ToolExecutionFailed_Escapes(msg) == create_error_response(-32603, msg)

\* tools.py lines 298-306 inside mcp_server.py lines 189-196: an exception
\* that reaches the `except Exception` of execute_tool becomes an operation
\* error in a result envelope
ToolExecutionFailed(msg) ==
    ResultResponse(TRUE, "Tool execution failed", msg)

\* the `except TrelloAPIError` of every handler (e.g. lines 338-345)
HandlerFailed(msg) == ResultResponse(TRUE, "Failed to", msg)

\* lines 257-264
InvalidCredentials_AsEnvelopeError(msg) == create_error_response(-32603, msg)

InvalidCredentials(msg) == ResultResponse(TRUE, "Invalid credentials", msg)

\* lines 289-296
UnknownTool == ResultResponse(TRUE, "Unknown tool", NONE)

\* a handler returned its summary (no isError key in the payload)
Success == ResultResponse(FALSE, "ok", NONE)

\* What a handler does between the dispatch (lines 267-296) and its
\* _make_request: it builds the pydantic request, whose required fields
\* reject None (schemas.py), or picks the endpoint (get_cards, lines
\* 338-343); the handlers that only read ids with arguments.get() go on
\* with None in the URL.
Prelude(name, present) ==
    CASE name \notin HandlerNames -> "UnknownTool"
      [] name \in {"create_board", "create_list", "create_card",
                   "search_cards"} ->
            IF Required(name) \subseteq present
            THEN "request" ELSE "ValidationError"
      [] name = "get_cards" ->
            IF present = {} THEN "TrelloAPIError" ELSE "request"
      [] OTHER -> "request"

\* correlation ids a client can send; None when the envelope has no id
Ids == {NONE, "id-a", "id-b"}

\* every response is built with "id": request_id, where request_id is
\* request.get("id") (mcp_server.py lines 78, 121, 157, 191, 228)
ResponseId_Dropped(r) == NONE

ResponseId(r) == r.id

\* the response of a task that has finished carries that id
EchoId(c) ==
    rid' = [rid EXCEPT ![c] =
              IF pc'[c] = "done" THEN ResponseId(req'[c]) ELSE @]

\* no other coroutine runs while one sits in the blocking input() of
\* prompt_for_credentials
LoopFree_Ignored(c) == TRUE

LoopFree(c) == \A d \in Tasks \ {c} : pc[d] # "prompt"

Finish(c, response) ==
    /\ pc' = [pc EXCEPT ![c] = "done"]
    /\ resp' = [resp EXCEPT ![c] = response]

StartValidation_SkipsValidation(c, pair) ==
    /\ creds' = [creds EXCEPT ![c] = pair]
    /\ phase' = [phase EXCEPT ![c] = "operate"]
    /\ pc' = [pc EXCEPT ![c] = "acquire"]
    /\ UNCHANGED resp

\* execute_tool lines 249-256 up to the acquire() of the validation request
StartValidation(c, pair) ==
    /\ creds' = [creds EXCEPT ![c] = pair]
    /\ phase' = [phase EXCEPT ![c] = "validate"]
    /\ pc' = [pc EXCEPT ![c] = "acquire"]
    /\ UNCHANGED resp

ResolveForCall_Partial(c, t, api_key, token) ==
    IF ~Truthy(api_key) \/ ~Truthy(token)
    THEN LET r == get_or_prompt_credentials(c, t, api_key, token, "pair") IN
         [ret |-> [api_key |-> IF Truthy(api_key) THEN api_key
                               ELSE r.ret.api_key,
                   token |-> IF Truthy(token) THEN token ELSE r.ret.token],
          raised |-> r.raised, cache |-> r.cache, source |-> r.source]
    ELSE [ret |-> [api_key |-> api_key, token |-> token], raised |-> FALSE,
          cache |-> c, source |-> "arguments"]

\* execute_tool lines 241-247: the credential manager is asked only when
\* one of the two arguments is missing or empty.  `source` is "prompt" when
\* the resolution reaches prompt_for_credentials, whose input() is a
\* separate step (PromptReturns).
ResolveForCall(c, t, api_key, token) ==
    IF ~Truthy(api_key) \/ ~Truthy(token)
    THEN get_or_prompt_credentials(c, t, api_key, token, "pair")
    ELSE [ret |-> [api_key |-> api_key, token |-> token], raised |-> FALSE,
          cache |-> c, source |-> "arguments"]

\* _handle_tool_call (mcp_server.py lines 170-187) and execute_tool (lines
\* 238-256) up to the first suspension point
HandleToolCall(c, id, name, api_key, token, present) ==
    /\ pc[c] = "idle"
    /\ LoopFree(c)
    /\ req' = [req EXCEPT ![c] =
                 [method |-> "tools/call", id |-> id, params |-> "object",
                  version |-> NONE]]
    /\ call' = [call EXCEPT ![c] =
                  [name |-> name, api_key |-> api_key, token |-> token,
                   present |-> present]]
    /\ IF ~Truthy(name)
       THEN /\ Finish(c, create_error_response(-32602,
                                               "Tool name is required"))
            /\ UNCHANGED <<creds, phase, prompts>>
            /\ UNCHANGED <<cached_credentials, credentials_timestamp>>
       ELSE IF ~tools
       THEN /\ Finish(c, create_error_response(-32603,
                                               "Tools not initialized"))
            /\ UNCHANGED <<creds, phase, prompts>>
            /\ UNCHANGED <<cached_credentials, credentials_timestamp>>
       ELSE LET r == ResolveForCall(CurrentCache, now, api_key, token) IN
            IF r.source = "prompt"
            THEN /\ SetCache(get_cached_credentials(CurrentCache, now).cache)
                 /\ pc' = [pc EXCEPT ![c] = "prompt"]
                 /\ prompts' = prompts + 1
                 /\ UNCHANGED <<creds, phase, resp>>
            ELSE /\ SetCache(r.cache)
                 /\ StartValidation(c, r.ret)
                 /\ UNCHANGED prompts
    /\ EchoId(c)
    /\ UNCHANGED <<now, hist, tools, sent, last, initialized>>
    /\ UNCHANGED <<startup, query>>
    /\ UNCHANGED limiterVars

\* input() returns or raises inside prompt_for_credentials
PromptReturns(c, outcome) ==
    /\ pc[c] = "prompt"
    /\ LET p == prompt_for_credentials(CurrentCache, now, outcome) IN
         /\ SetCache(p.cache)
         /\ IF p.raised
            THEN /\ Finish(c, ToolExecutionFailed("EOFError"))
                 /\ UNCHANGED <<creds, phase>>
            ELSE StartValidation(c, p.ret)
    /\ UNCHANGED req
    /\ EchoId(c)
    /\ UNCHANGED <<now, prompts, hist, tools, call, sent, last, initialized>>
    /\ UNCHANGED <<startup, query>>
    /\ UNCHANGED limiterVars

Endpoint(c) == IF phase[c] = "validate" THEN "members/me" ELSE call[c].name

\* The query parameters of the operation request hold a value that is not a
\* str, int or float: None for the member id add_member_to_card did not get
\* (lines 430-433), the bool default_lists of create_board (lines 237-240).
\* Whether session.request() sends such a value or raises TypeError is up
\* to the HTTP library, so both are possible.
OddQueryValue(c) ==
    /\ phase[c] = "operate"
    /\ \/ call[c].name = "create_board"
       \/ call[c].name = "add_member_to_card"
          /\ "member_id" \notin call[c].present

AfterAdmission(c) ==
    IF OddQueryValue(c) THEN {"http", "done"} ELSE {"http"}

SendRequest_Unadmitted(c) ==
    /\ pc[c] = "acquire"
    /\ phase[c] # NONE
    /\ LoopFree(c)
    /\ pc' = [pc EXCEPT ![c] = "http"]
    /\ sent' = [sent EXCEPT ![c] = Append(@,
                  [endpoint |-> Endpoint(c), key |-> creds[c].api_key,
                   token |-> creds[c].token, outcome |-> "pending"])]
    /\ UNCHANGED <<now, tools, call, creds, phase, last, initialized, resp,
                   req, rid>>
    /\ UNCHANGED <<startup, query>>
    /\ UNCHANGED limiterVars
    /\ UNCHANGED credVars

\* _make_request lines 104-128: the admission, then the request leaves with
\* the credentials merged into its parameters (or building it raises)
SendRequest(c) ==
    /\ pc[c] = "acquire"
    /\ phase[c] # NONE
    /\ LoopFree(c)
    /\ \E after \in AfterAdmission(c) : AcquireBody(c, after)
    /\ sent' = IF pc'[c] = "http"
               THEN [sent EXCEPT ![c] = Append(@,
                        [endpoint |-> Endpoint(c), key |-> creds[c].api_key,
                         token |-> creds[c].token, outcome |-> "pending"])]
               ELSE sent
    /\ resp' = IF pc'[c] = "done"
               THEN [resp EXCEPT ![c] = ToolExecutionFailed("TypeError")]
               ELSE resp
    /\ UNCHANGED req
    /\ EchoId(c)
    /\ UNCHANGED <<now, tools, call, creds, phase, last, initialized>>
    /\ UNCHANGED <<startup, query>>
    /\ UNCHANGED credVars

\* the upstream answers (or the connection fails): _make_request lines
\* 130-172, validate_credentials lines 174-193, execute_tool lines 257-306
\* and the handler around its client call
UpstreamResponds(c, outcome) ==
    /\ pc[c] = "http"
    /\ LoopFree(c)
    /\ sent' = [sent EXCEPT ![c][Len(sent[c])].outcome = outcome]
    /\ last' = [last EXCEPT ![c] = make_request(outcome)]
    /\ LET r == make_request(outcome) IN
       IF phase[c] = "validate"
       THEN IF r.exc = "TrelloAPIError"
            THEN Finish(c, InvalidCredentials(r.msg)) /\ UNCHANGED phase
            ELSE IF r.exc # NONE
            THEN Finish(c, ToolExecutionFailed(r.msg)) /\ UNCHANGED phase
            ELSE LET d == Prelude(call[c].name, call[c].present) IN
                 CASE d = "UnknownTool" ->
                        Finish(c, UnknownTool) /\ UNCHANGED phase
                   [] d = "ValidationError" ->
                        Finish(c, ToolExecutionFailed("ValidationError"))
                        /\ UNCHANGED phase
                   [] d = "TrelloAPIError" ->
                        Finish(c, HandlerFailed("Either board_id or list_id"))
                        /\ UNCHANGED phase
                   [] OTHER ->
                        /\ phase' = [phase EXCEPT ![c] = "operate"]
                        /\ pc' = [pc EXCEPT ![c] = "acquire"]
                        /\ UNCHANGED resp
       ELSE /\ UNCHANGED phase
            /\ IF r.exc = "TrelloAPIError"
               THEN Finish(c, HandlerFailed(r.msg))
               ELSE IF r.exc # NONE
               THEN Finish(c, ToolExecutionFailed(r.msg))
               ELSE Finish(c, Success)
    /\ UNCHANGED req
    /\ EchoId(c)
    /\ UNCHANGED <<now, tools, call, creds, initialized>>
    /\ UNCHANGED <<startup, query>>
    /\ UNCHANGED limiterVars
    /\ UNCHANGED credVars

\* ------------------------------------------------------------------------
\* The protocol handler (mcp_server.py).  main.py hands handle_request only
\* JSON objects that carry "jsonrpc": "2.0" and a method key (lines
\* 185-211); `params` records whether the envelope's params is an object,
\* is absent (handle_request then uses {}) or is some other JSON value.

Methods ==
    {"initialize", "tools/list", "tools/call", "resources/list",
     "prompts/list"}
RequestMethods == Methods \cup {"no/such", NONE}
ParamShapes == {"object", "absent", "other"}
supported_versions == {"2024-11-05"}
Versions == supported_versions \cup {"9999-01-01", NONE}

\* protocolVersion is read by initialize alone, from a params object
Envelopes ==
    {r \in [method : RequestMethods, id : Ids, params : ParamShapes,
            version : Versions] :
        r.version # NONE => r.method = "initialize" /\ r.params = "object"}

\* params.get(...) on a value that is not a dict raises AttributeError,
\* which the handler's own except turns into -32603 with str(e)
NotAnObject_Escapes ==
    [kind |-> "raised", code |-> 0, isError |-> FALSE,
     text |-> "AttributeError", detail |-> NONE, keys |-> {}]

NotAnObject == create_error_response(-32603, "AttributeError")

handle_initialize_AnyVersion(r) ==
    IF r.params = "other"
    THEN NotAnObject
    ELSE ResultResponse(FALSE, "protocolVersion, capabilities, serverInfo",
                        r.version)

handle_initialize(r) ==
    IF r.params = "other"
    THEN NotAnObject
    ELSE IF r.version \notin supported_versions
    THEN create_error_response(-32602, "Unsupported protocol version")
    ELSE ResultResponse(FALSE, "protocolVersion, capabilities, serverInfo",
                        r.version)

handle_tools_list_Gated(t) ==
    IF initialized
    THEN ResultResponse(FALSE, "tools", IF t THEN "catalog" ELSE "empty")
    ELSE create_error_response(-32002, "Server not initialized")

handle_tools_list(t) ==
    ResultResponse(FALSE, "tools", IF t THEN "catalog" ELSE "empty")

handle_resources_list == ResultResponse(FALSE, "resources", "empty")

handle_prompts_list == ResultResponse(FALSE, "prompts", "empty")

handle_request_NoDefault(r, t) ==
    CASE r.method = "initialize" -> handle_initialize(r)
      [] r.method = "tools/call" -> NotAnObject
      [] r.method = "resources/list" -> handle_resources_list
      [] r.method = "prompts/list" -> handle_prompts_list
      [] OTHER -> handle_tools_list(t)

\* handle_request for the requests it answers without suspending; a
\* tools/call whose params is an object (or absent) is HandleToolCall
handle_request(r, t) ==
    CASE r.method = "initialize" -> handle_initialize(r)
      [] r.method = "tools/list" -> handle_tools_list(t)
      [] r.method = "tools/call" -> NotAnObject
      [] r.method = "resources/list" -> handle_resources_list
      [] r.method = "prompts/list" -> handle_prompts_list
      [] OTHER -> create_error_response(-32601, "Method not found")

Immediate(r) == r.method # "tools/call" \/ r.params = "other"

HandleRequest(c, r) ==
    /\ pc[c] = "idle"
    /\ LoopFree(c)
    /\ Immediate(r)
    /\ req' = [req EXCEPT ![c] = r]
    /\ Finish(c, handle_request(r, tools))
    /\ EchoId(c)
    /\ UNCHANGED <<now, tools, call, creds, phase, sent, last, initialized>>
    /\ UNCHANGED <<startup, query>>
    /\ UNCHANGED limiterVars
    /\ UNCHANGED credVars

\* TrelloMCPServer after startup: TrelloMCPServer.initialize() has built
\* TrelloTools (line 36), or that constructor raised and tools stayed None
\* (lines 22 and 50-52)
Init ==
    /\ InitCommon
    /\ InitCache
    /\ tools \in BOOLEAN
    /\ tools = FALSE => cached_credentials = NoCredentials
    /\ initialized = tools
    /\ startup = IF tools THEN "ready" ELSE "failed"

\* Spec follows one request, sent by the client task, from the startup
\* state to its response.
Client == CHOOSE c \in Tasks : \A d \in Tasks : c <= d

Next ==
    \/ Tick
    \/ \E r \in Envelopes : HandleRequest(Client, r)
    \/ \E name \in CallNames, k \in ApiKeys, t \in Tokens :
          \E present \in SUBSET Params(name) :
             HandleToolCall(Client, "id-a", name, k, t, present)
    \/ \E o \in PromptOutcomes : PromptReturns(Client, o)
    \/ SendRequest(Client)
    \/ \E o \in Outcomes : UpstreamResponds(Client, o)

Spec == Init /\ [][Next]_vars

\* ------------------------------------------------------------------------
\* Startup (main.py lifespan, lines 34-62): initialize() is awaited once
\* before any request is served, and its failure is logged and swallowed.

\* the attributes class Config defines (config.py 11-38)
ConfigAttributes ==
    {"DEBUG", "PORT", "SERVICE_NAME", "SERVICE_VERSION", "LOG_LEVEL",
     "LOG_FORMAT", "REQUEST_TIMEOUT", "MAX_RETRIES", "get_timestamp",
     "is_cloud_run"}

\* CredentialManager.__init__ reads config.TRELLO_USERNAME and
\* config.TRELLO_PASSWORD (lines 35-36); reading an attribute the class
\* does not define raises AttributeError
CredentialManagerInit ==
    IF {"TRELLO_USERNAME", "TRELLO_PASSWORD"} \subseteq ConfigAttributes
    THEN "built" ELSE "AttributeError"

\* get_available_tools (mcp_server.py 59-71): the names of the catalog,
\* or nothing when self.tools is None
get_available_tools(t) == IF t THEN ToolNames ELSE {}

InitCreated ==
    /\ InitCommon
    /\ cached_credentials = NoCredentials
    /\ credentials_timestamp = NoTime
    /\ tools = FALSE
    /\ initialized = FALSE
    /\ startup = "created"

\* TrelloMCPServer.initialize(): TrelloTools() builds the credential
\* manager (tools.py 26-28); if that raises, tools and initialized keep
\* their values
Initialize ==
    /\ startup = "created"
    /\ IF CredentialManagerInit = "built"
       THEN /\ tools' = TRUE
            /\ initialized' = TRUE
            /\ startup' = "ready"
       ELSE /\ startup' = "failed"
            /\ UNCHANGED <<tools, initialized>>
    /\ UNCHANGED <<now, pc, call, creds, phase, sent, resp, req, rid, last,
                   query>>
    /\ UNCHANGED limiterVars
    /\ UNCHANGED credVars

Serving == startup # "created"

NextStartup ==
    \/ Initialize
    \/ Tick
    \/ \E r \in Envelopes : Serving /\ HandleRequest(Client, r)
    \/ \E id \in Ids, name \in CallNames, k \in ApiKeys, t \in Tokens :
          Serving /\ HandleToolCall(Client, id, name, k, t, {})

SpecStartup == InitCreated /\ [][NextStartup]_vars

\* ------------------------------------------------------------------------
\* update_card: from the arguments of the call to the query parameters of
\* the PUT request.  A field of the arguments is omitted, null or given;
\* due may also be the empty string or a string that is no ISO timestamp.

FieldStates == {"omitted", "null", "value"}
DueStates == FieldStates \cup {"empty", "malformed"}
UpdateArguments ==
    {a \in [UpdateFields -> DueStates] :
        \A f \in UpdateFields \ {"due"} : a[f] \in FieldStates}

\* arguments.get(f): None when the key is omitted or null (tools.py
\* 679-683)
ArgumentsGet(a, f) == IF a[f] = "value" THEN "value" ELSE NONE

\* due_date of _update_card (tools.py 659-674): initialised to None, kept
\* None for null and "", else parsed
DueDate(a) == IF a["due"] = "value" THEN "value" ELSE NONE

\* UpdateCardRequest as _update_card builds it
UpdateCardRequest(a) ==
    [f \in UpdateFields |->
        IF f = "due" THEN DueDate(a) ELSE ArgumentsGet(a, f)]

\* TrelloClient.update_card lines 398-411: a field enters params only
\* when it is not None
update_card_params(request) ==
    [f \in UpdateFields |->
        IF request[f] # NONE
        THEN (IF f = "due" THEN "iso" ELSE "value")
        ELSE "absent"]

\* _update_card up to the client call: a malformed due is refused with
\* "Invalid due date format", anything else builds the parameters
UpdateCard(c, a) ==
    /\ pc[c] = "idle"
    /\ query' = [query EXCEPT ![c] =
                   IF a["due"] = "malformed"
                   THEN [args |-> a, params |-> NoQuery.params,
                         refused |-> TRUE]
                   ELSE [args |-> a,
                         params |-> update_card_params(UpdateCardRequest(a)),
                         refused |-> FALSE]]
    /\ UNCHANGED <<now, pc, tools, call, creds, phase, sent, resp, req, rid,
                   last, initialized, startup>>
    /\ UNCHANGED limiterVars
    /\ UNCHANGED credVars

NextUpdate == \E a \in UpdateArguments : UpdateCard(Client, a)

SpecUpdate == Init /\ [][NextUpdate]_vars

\* SpecPromptFair: one list_boards call, with the progress the event loop
\* and the HTTP client guarantee: a ready coroutine runs, and the upstream
\* request ends within its total timeout.  Nothing bounds input(): the
\* prompt returns when the user, or the end of stdin, makes it return.
NextPrompt ==
    \/ Tick
    \/ \E k \in ApiKeys, t \in Tokens :
          HandleToolCall(Client, "id-a", "list_boards", k, t, {})
    \/ \E o \in PromptOutcomes : PromptReturns(Client, o)
    \/ SendRequest(Client)
    \/ \E o \in Outcomes : UpstreamResponds(Client, o)

SpecPromptFair ==
    /\ Init
    /\ [][NextPrompt]_vars
    /\ WF_vars(Tick)
    /\ WF_vars(SendRequest(Client))
    /\ WF_vars(\E o \in Outcomes : UpstreamResponds(Client, o))

\* SpecServer: several clients post requests of every method to the same
\* server; their handlers interleave at the suspension points.
Peer == CHOOSE c \in Tasks \ {Client} : \A d \in Tasks \ {Client} : c <= d
ServerClients == {Client, Peer}
\* each client numbers its own requests, or sends none
IdOf(c) == IF c = Client THEN "id-a" ELSE "id-b"
ClientIds(c) == {NONE, IdOf(c)}
ServerCalls == {"list_boards", UnknownName, NONE}
ServerPairs == {NoCredentials, [api_key |-> "K1", token |-> "T1"]}
ServerOutcomes == {"200", "401"}

NextServer ==
    \/ Tick
    \/ \E c \in ServerClients, r \in Envelopes :
          r.id \in ClientIds(c) /\ HandleRequest(c, r)
    \/ \E c \in ServerClients, name \in ServerCalls, pair \in ServerPairs :
          \E id \in ClientIds(c) :
             HandleToolCall(c, id, name, pair.api_key, pair.token, {})
    \/ \E c \in ServerClients, o \in PromptOutcomes : PromptReturns(c, o)
    \/ \E c \in ServerClients : SendRequest(c)
    \/ \E c \in ServerClients, o \in ServerOutcomes : UpstreamResponds(c, o)
    \/ \E c \in ServerClients : AcquireWake(c)

SpecServer == Init /\ [][NextServer]_vars

\* ------------------------------------------------------------------------
\* C1 - sliding-window bound
\* ------------------------------------------------------------------------
AdmittedIn(t) ==
    {i \in DOMAIN admitted : t <= admitted[i] /\ admitted[i] < t + time_window}

\* C1: at every point in time, no window of time_window consecutive time
\* units [t, t + time_window) holds more than max_requests recorded
\* admissions, whatever the interleaving of the acquire() calls.
C1_WindowBound ==
    \A t \in 0..MaxTime : Cardinality(AdmittedIn(t)) <= max_requests

\* a window that is full: max_requests admissions recorded inside it, by
\* several callers, with a further caller held back
C1_Witness ==
    /\ \E t \in 0..MaxTime : Cardinality(AdmittedIn(t)) = max_requests
    /\ \E c \in Tasks : pc[c] = "sleep"

\* ------------------------------------------------------------------------
\* C2 - every acquire() returns
\* ------------------------------------------------------------------------
\* C2: every acquire() call eventually returns (its admission is recorded),
\* also when it arrives while the window already holds max_requests
\* admissions.
C2_EveryAcquireReturns ==
    \A c \in Tasks : (pc[c] = "acquire") ~> (pc[c] = "admitted")

\* ------------------------------------------------------------------------
\* C7, C8, C9 - credential resolution (checked under SpecCred)
\* ------------------------------------------------------------------------
\* a parameter is given when it is neither None nor the empty string
Given(x) == x # NONE /\ x # ""
ExplicitPair(h) == Given(h.api_key) /\ Given(h.token)

\* the entry a resolution found in the cache was present and not older
\* than cache_duration
FoundFresh(h) ==
    /\ h.before.cc # NoCredentials
    /\ h.at - h.before.ts <= cache_duration

\* the entry a resolution found in the cache was present but older than
\* cache_duration
FoundExpired(h) ==
    /\ h.before.cc # NoCredentials
    /\ h.at - h.before.ts > cache_duration

FromCache(h) == ~h.raised /\ h.ret = h.before.cc /\ ~h.prompted
FromPrompt(h) ==
    /\ h.prompted
    /\ h.outcome = "pair" =>
          /\ ~h.raised
          /\ h.ret = PromptPair
          /\ h.after = Cache(PromptPair, h.at)
    /\ h.outcome # "pair" => h.raised

\* C7: a resolution returns the explicit pair when both parts are given;
\* otherwise the cached pair when the cache holds an entry no older than
\* cache_duration; otherwise the pair of the interactive acquisition, which
\* is cached.
C7_ResolutionOrder ==
    \A i \in DOMAIN hist :
        LET h == hist[i] IN
        IF ExplicitPair(h)
        THEN ~h.raised /\ ~h.prompted
             /\ h.ret = [api_key |-> h.api_key, token |-> h.token]
        ELSE IF FoundFresh(h) THEN FromCache(h) ELSE FromPrompt(h)

\* an explicit pair was preferred to a fresh cached pair that differs from
\* it, and another resolution went to the prompt because the cache was empty
C7_Witness ==
    /\ \E i \in DOMAIN hist :
          /\ ExplicitPair(hist[i]) /\ FoundFresh(hist[i])
          /\ hist[i].before.cc # hist[i].ret
    /\ \E i \in DOMAIN hist :
          /\ ~ExplicitPair(hist[i]) /\ hist[i].before.cc = NoCredentials
          /\ hist[i].ret = PromptPair

\* C8: without an explicit pair, a cached entry is served while its age is
\* at most cache_duration, and once its age exceeds cache_duration the
\* resolution goes to interactive acquisition: the expired entry is gone
\* from the cache and is not what the resolution returns.
C8_ExpiryBoundary ==
    \A i \in DOMAIN hist :
        LET h == hist[i] IN
        ~ExplicitPair(h) =>
            /\ FoundFresh(h) => FromCache(h) /\ h.after = h.before
            /\ FoundExpired(h) =>
                  /\ FromPrompt(h)
                  /\ h.after.cc # NoCredentials => h.after.ts = h.at

\* one resolution at age exactly cache_duration was served from the cache,
\* the next one, one time unit later, fell through to the prompt
C8_Witness ==
    \E i \in DOMAIN hist : \E j \in DOMAIN hist :
        /\ ~ExplicitPair(hist[i]) /\ ~ExplicitPair(hist[j])
        /\ hist[i].before.cc # NoCredentials
        /\ hist[i].at - hist[i].before.ts = cache_duration
        /\ FromCache(hist[i])
        /\ hist[j].before = hist[i].before
        /\ hist[j].at - hist[j].before.ts = cache_duration + 1
        /\ hist[j].prompted

\* two resolutions in succession: the second finds the cache as the first
\* left it
Successive(i) ==
    /\ i \in DOMAIN hist /\ i + 1 \in DOMAIN hist
    /\ hist[i + 1].before = hist[i].after

\* C9: of two successive resolutions without explicit credentials, the
\* second, when it is within cache_duration of the cache timestamp the
\* first left, returns the same pair as the first and does not invoke
\* interactive acquisition.
C9_Idempotent ==
    \A i \in DOMAIN hist :
        (/\ Successive(i)
         /\ ~ExplicitPair(hist[i]) /\ ~ExplicitPair(hist[i + 1])
         /\ ~hist[i].raised
         /\ hist[i + 1].at - hist[i].after.ts <= cache_duration)
        => /\ ~hist[i + 1].raised
           /\ hist[i + 1].ret = hist[i].ret
           /\ ~hist[i + 1].prompted

\* the first resolution acquired the pair interactively, the second one, at
\* a later time inside the window, returned it again
C9_Witness ==
    \E i \in DOMAIN hist :
        /\ Successive(i)
        /\ ~ExplicitPair(hist[i]) /\ ~ExplicitPair(hist[i + 1])
        /\ hist[i].prompted /\ ~hist[i].raised
        /\ hist[i + 1].at > hist[i].at
        /\ hist[i + 1].at - hist[i].after.ts <= cache_duration
        /\ hist[i + 1].ret = PromptPair

\* ------------------------------------------------------------------------
\* C3, C4, C5, C6, C10 - tool calls (checked under Spec)
\* ------------------------------------------------------------------------
Handled(c) == pc[c] # "idle" /\ tools /\ Truthy(call[c].name)

\* C3: every step of a call of execute_tool with a name outside the catalog
\* issues no upstream request, records no admission, starts no interactive
\* acquisition and leaves the credential cache unchanged, and the result of
\* the call is the unknown-tool failure.
C3_UnknownToolNoEffect ==
    [][\A c \in Tasks :
          (tools /\ call'[c].name = UnknownName) =>
              /\ sent'[c] = sent[c]
              /\ admitted' = admitted
              /\ prompts' = prompts
              /\ pc'[c] # "prompt"
              /\ cached_credentials' = cached_credentials
              /\ credentials_timestamp' = credentials_timestamp
              /\ pc'[c] = "done" => resp'[c] = UnknownTool]_vars

\* the operation behind a finished call went through: both of its upstream
\* requests were answered 200
Succeeded(c) ==
    /\ Len(sent[c]) = 2
    /\ \A i \in DOMAIN sent[c] : Status(sent[c][i].outcome) = "200"

\* C4: with the registry constructed, the response to a tools/call that
\* names a tool is never an envelope error: it is a result whose payload is
\* flagged isError with a message when anything failed, and a result
\* without isError when the operation succeeded.
C4_FailuresAreResults ==
    \A c \in Tasks :
        (Handled(c) /\ pc[c] = "done") =>
            /\ resp[c].kind = "result"
            /\ resp[c].isError = ~Succeeded(c)
            /\ resp[c].text # NONE

\* the failures of the claim all occurred: an upstream status, a network
\* failure, a raised timeout, rejected arguments, a failed acquisition
C4_Witness ==
    \E c \in Tasks :
        /\ Handled(c) /\ pc[c] = "done" /\ resp[c].isError
        /\ resp[c].kind = "result"
        /\ \/ resp[c] = ToolExecutionFailed("ValidationError")
           \/ /\ Len(sent[c]) = 2
              /\ sent[c][2].outcome \in {"500", "ClientError", "TimeoutError"}

\* C5: when the validation request of a call was answered 401, the
\* credential cache is empty once the call has returned.
C5_CacheClearedOn401 ==
    \A c \in Tasks :
        (/\ Handled(c) /\ pc[c] = "done"
         /\ Len(sent[c]) >= 1
         /\ sent[c][1].outcome = "401")
        => /\ cached_credentials = NoCredentials
           /\ credentials_timestamp = NoTime

\* C6: the step that starts a call carrying both api_key and token resolves
\* to that pair and writes it to the cache with the current time.
C6_ExplicitPairRefreshesCache ==
    [][\A c \in Tasks :
          (/\ pc[c] = "idle" /\ pc'[c] # "idle"
           /\ tools /\ Truthy(call'[c].name)
           /\ Given(call'[c].api_key) /\ Given(call'[c].token))
          => /\ creds'[c] = [api_key |-> call'[c].api_key,
                             token |-> call'[c].token]
             /\ cached_credentials' = creds'[c]
             /\ credentials_timestamp' = now]_vars

\* the response that rejects arguments
IsInvalidArguments(r) == r.isError /\ r.detail = "ValidationError"

\* C10: a call of a catalog tool whose arguments omit a required parameter
\* resolves no credentials, issues no upstream request and ends with an
\* invalid-arguments error.
C10_RequiredCheckedFirst ==
    \A c \in Tasks :
        (/\ Handled(c)
         /\ call[c].name \in ToolNames
         /\ ~(Required(call[c].name) \subseteq call[c].present))
        => /\ creds[c] = NoCredentials
           /\ pc[c] # "prompt"
           /\ sent[c] = <<>>
           /\ pc[c] = "done" => IsInvalidArguments(resp[c])

\* ------------------------------------------------------------------------
\* C11 - result and error are mutually exclusive

Answered(c) == pc[c] = "done"

\* C11: every response handle_request returns, for every method and every
\* outcome, has exactly one of the members result and error.
C11_ResultXorError ==
    \A c \in Tasks :
       Answered(c) =>
          ("result" \in resp[c].keys) # ("error" \in resp[c].keys)

\* a tool call that failed upstream is answered with a result, no error
C11_Witness ==
    /\ Answered(Client)
    /\ req[Client].method = "tools/call"
    /\ Len(sent[Client]) = 2
    /\ resp[Client].isError
    /\ "result" \in resp[Client].keys
    /\ "error" \notin resp[Client].keys

\* ------------------------------------------------------------------------
\* C12 - the correlation id is echoed

\* C12: every response carries the id of its own request unchanged (None
\* when the request has none), whatever path produced it and whatever
\* other requests are in progress.
C12_IdEchoed ==
    \A c \in Tasks : Answered(c) => rid[c] = req[c].id

\* the peer's request was answered with an error while the client's tool
\* call ran; both answers are there and the ids differ
C12_Witness ==
    /\ Answered(Client)
    /\ Answered(Peer)
    /\ req[Client].method = "tools/call"
    /\ Len(sent[Client]) = 2
    /\ resp[Client].kind = "result"
    /\ resp[Peer].kind = "error"
    /\ req[Client].id = "id-a"
    /\ req[Peer].id = NONE
    /\ rid[Client] = "id-a"
    /\ rid[Peer] = NONE

\* ------------------------------------------------------------------------
\* C13 - initialize and the protocol version

IsInitialize(c) ==
    Answered(c) /\ req[c].method = "initialize" /\ req[c].params # "other"

\* C13: an initialize request whose params is an object (or absent)
\* succeeds, returning the requested version, exactly when
\* params.protocolVersion is "2024-11-05"; for any other value, or none,
\* the response is the error -32602 "Unsupported protocol version".
C13_InitializeVersion ==
    \A c \in Tasks :
       IsInitialize(c) =>
          IF req[c].version = "2024-11-05"
          THEN /\ resp[c].kind = "result"
               /\ ~resp[c].isError
               /\ resp[c].detail = "2024-11-05"
          ELSE /\ resp[c].kind = "error"
               /\ resp[c].code = -32602
               /\ resp[c].text = "Unsupported protocol version"

\* initialize without protocolVersion was refused
C13_Witness ==
    /\ IsInitialize(Client)
    /\ req[Client].version = NONE
    /\ resp[Client].code = -32602

\* ------------------------------------------------------------------------
\* C14 - Uninitialized -> Ready

InitializeSucceeds(c) ==
    /\ pc[c] = "idle"
    /\ pc'[c] = "done"
    /\ req'[c].method = "initialize"
    /\ resp'[c].kind = "result"

\* C14: handling a successful initialize request leaves the server Ready
\* (initialized is true), and a Ready server stays Ready.
C14_InitializeMovesToReady ==
    [][/\ \A c \in Tasks : InitializeSucceeds(c) => initialized'
       /\ initialized => initialized']_vars

\* ------------------------------------------------------------------------
\* C15 - handle_request never raises

InternalFault(c) ==
    /\ Answered(c)
    /\ req[c].params = "other"
    /\ req[c].method \in {"initialize", "tools/call"}

IsInternalError(r) == r.kind = "error" /\ r.code = -32603

FaultStep(c) ==
    pc[c] = "idle" /\ pc'[c] = "done" /\ IsInternalError(resp'[c])

\* C15: every request is answered with an envelope, never with an
\* exception; an exception raised while handling it (params that is not
\* an object) becomes the error -32603 with the exception's message; and
\* the step that reports it leaves the server and the other requests as
\* they were, so later requests are handled as before.
C15_NeverRaises ==
    /\ [](\A c \in Tasks :
            /\ Answered(c) => resp[c].kind \in {"result", "error"}
            /\ InternalFault(c) =>
                  IsInternalError(resp[c]) /\ resp[c].text = "AttributeError")
    /\ [][\A c \in Tasks :
            FaultStep(c) =>
               /\ UNCHANGED <<tools, initialized>>
               /\ UNCHANGED limiterVars
               /\ UNCHANGED credVars
               /\ \A d \in Tasks \ {c} :
                     pc'[d] = pc[d] /\ resp'[d] = resp[d]]_vars

\* the client's request faulted; the peer's tool call was answered too
C15_Witness ==
    /\ InternalFault(Client)
    /\ IsInternalError(resp[Client])
    /\ Answered(Peer)
    /\ req[Peer].method = "tools/call"
    /\ Len(sent[Peer]) = 2
    /\ resp[Peer].kind = "result"
    /\ ~resp[Peer].isError

\* ------------------------------------------------------------------------
\* C16 - unknown methods

UnknownMethodStep(c) ==
    pc[c] = "idle" /\ pc'[c] # "idle" /\ req'[c].method \notin Methods

\* C16: a request whose method is none of the five (or is missing) is
\* answered at once with the error -32601, and handling it changes no
\* server, credential-cache or rate-limiter state and sends nothing
\* upstream.
C16_MethodNotFound ==
    [][\A c \in Tasks :
         UnknownMethodStep(c) =>
            /\ pc'[c] = "done"
            /\ resp'[c].kind = "error"
            /\ resp'[c].code = -32601
            /\ UNCHANGED <<tools, initialized, sent>>
            /\ UNCHANGED limiterVars
            /\ UNCHANGED credVars]_vars

\* an envelope without method was answered -32601
C16_Witness ==
    /\ Answered(Client)
    /\ req[Client].method = NONE
    /\ resp[Client].code = -32601

\* ------------------------------------------------------------------------
\* C17 - tools/call without a name

NamelessCallStep(c) ==
    /\ pc[c] = "idle"
    /\ pc'[c] # "idle"
    /\ req'[c].method = "tools/call"
    /\ req'[c].params # "other"
    /\ ~Given(call'[c].name)

\* C17: a tools/call whose params has no name, or an empty one, is
\* answered at once with the error -32602; no credential is resolved, no
\* prompt is shown, no admission is taken and nothing is sent upstream.
C17_NameRequired ==
    [][\A c \in Tasks :
         NamelessCallStep(c) =>
            /\ pc'[c] = "done"
            /\ resp'[c].kind = "error"
            /\ resp'[c].code = -32602
            /\ resp'[c].text = "Tool name is required"
            /\ UNCHANGED <<sent, creds>>
            /\ UNCHANGED limiterVars
            /\ UNCHANGED credVars]_vars

\* an empty name, on a server with tools and nothing cached, where a
\* dispatch would have prompted
C17_Witness ==
    /\ Answered(Client)
    /\ req[Client].method = "tools/call"
    /\ call[Client].name = ""
    /\ tools
    /\ cached_credentials = NoCredentials
    /\ resp[Client].code = -32602
    /\ prompts = 0
    /\ sent[Client] = <<>>

\* ------------------------------------------------------------------------
\* C18 - classification of the upstream status

\* the answer to the request task c sent last, once it has arrived
LastOutcome(c) ==
    IF sent[c] = <<>> THEN "pending" ELSE sent[c][Len(sent[c])].outcome

IsFailure(r, msg, status) ==
    /\ r.exc = "TrelloAPIError"
    /\ r.msg = msg
    /\ r.status = status
    /\ r.data = "body"

\* C18: status 200 is a success (the decoded body, or the raw text wrapped
\* as a result when it is not JSON); 401, 403, 404 and 429 are the
\* Unauthorized, Forbidden, Not found and Rate limit exceeded failures;
\* any other 4xx/5xx status is an "API request failed" failure; every
\* failure carries the status and the raw body.
C18_StatusClassified ==
    \A c \in Tasks :
       LET o == LastOutcome(c)
           r == last[c]
       IN  /\ o = "200" => r.exc = NONE /\ r.value = "json"
           /\ o = "200text" => r.exc = NONE /\ r.value = "wrapped text"
           /\ o = "401" => IsFailure(r, "Unauthorized", "401")
           /\ o = "403" => IsFailure(r, "Forbidden", "403")
           /\ o = "404" => IsFailure(r, "Not found", "404")
           /\ o = "429" => IsFailure(r, "Rate limit exceeded", "429")
           /\ o = "500" => IsFailure(r, "API request failed", "500")

\* the operation request was refused with 403 after a validation whose
\* 200 body was plain text
C18_Witness ==
    /\ Len(sent[Client]) = 2
    /\ sent[Client][1].outcome = "200text"
    /\ LastOutcome(Client) = "403"
    /\ IsFailure(last[Client], "Forbidden", "403")

\* ------------------------------------------------------------------------
\* C19 - network failures

\* C19: a connection failure and the expiry of the total timeout both
\* leave _make_request as a TrelloAPIError without status; nothing else
\* escapes.
C19_NetworkFailuresTyped ==
    \A c \in Tasks :
       /\ last[c].exc \in {NONE, "TrelloAPIError"}
       /\ LastOutcome(c) \in {"ClientError", "TimeoutError"} =>
             /\ last[c].exc = "TrelloAPIError"
             /\ last[c].msg = "Network error"
             /\ last[c].status = NONE

\* ------------------------------------------------------------------------
\* C20 - one admission, one request, no retry

RECURSIVE TotalSent(_)
TotalSent(S) ==
    IF S = {} THEN 0
    ELSE LET c == CHOOSE x \in S : TRUE
         IN  Len(sent[c]) + TotalSent(S \ {c})

\* C20: a request leaves only in the step that records one admission of
\* its own; each _make_request sends at most one request and none after a
\* failure, so a tool call sends at most one request per endpoint and
\* only after the previous one succeeded; requests never outnumber
\* admissions.
C20_OneAdmissionPerRequest ==
    /\ [](/\ TotalSent(Tasks) <= Len(admitted)
          /\ \A c \in Tasks :
                \A i, j \in DOMAIN sent[c] :
                   i < j => /\ sent[c][i].endpoint # sent[c][j].endpoint
                            /\ Status(sent[c][i].outcome) = "200")
    /\ [][\A c \in Tasks :
            sent'[c] # sent[c] /\ Len(sent'[c]) > Len(sent[c]) =>
               /\ Len(sent'[c]) = Len(sent[c]) + 1
               /\ Len(admitted') = Len(admitted) + 1]_vars

\* validation and operation each took one admission; the operation
\* failed and was not repeated
C20_Witness ==
    /\ Answered(Client)
    /\ Len(sent[Client]) = 2
    /\ Len(admitted) = 2
    /\ LastOutcome(Client) = "500"

\* ------------------------------------------------------------------------
\* C21 - admission is mutually exclusive

AdmissionStep == Len(admitted') > Len(admitted)

\* C21: the read-prune-append sequence of an acquire() runs as one step
\* while no task holds the lock: the step records one admission, of one
\* task, into a window that had a free slot when the step began and is
\* never over-filled by it.  With one slot left and two concurrent
\* callers, the second finds the window full.
C21_AdmissionExclusive ==
    [][AdmissionStep =>
          /\ lock = 0
          /\ lock' = 0
          /\ Len(admitted') = Len(admitted) + 1
          /\ Len(Prune(requests, now)) < max_requests
          /\ Len(requests') <= max_requests
          /\ Cardinality({c \in Tasks : pc'[c] # pc[c]}) = 1]_vars

\* the last slot was taken at this instant by one caller, and another
\* caller that asked at the same instant was held back
C21_Witness ==
    /\ Len(admitted) = max_requests
    /\ admitted[max_requests] = now
    /\ \E c, d \in Tasks :
          /\ c # d
          /\ pc[c] = "admitted"
          /\ pc[d] = "sleep"
          /\ wake[d] = admitted[1] + time_window

\* ------------------------------------------------------------------------
\* C22 - the prompt and the rest of the process

WaitingForInput(c) == pc[c] = "prompt"

\* C22: while a tool call waits for user input, a request another client
\* posts meanwhile can still be handled.
C22_PromptDoesNotBlock ==
    \A c \in ServerClients :
       WaitingForInput(c) =>
          \A d \in ServerClients \ {c} :
             pc[d] = "idle" =>
                ENABLED (\E r \in Envelopes :
                            r.id \in ClientIds(d) /\ HandleRequest(d, r))

\* ------------------------------------------------------------------------
\* C23 - the catalog after startup

ToolsListed(c) == Answered(c) /\ req[c].method = "tools/list"

\* C23: once startup has run, the server holds the catalog of 11 tools:
\* get_available_tools reports all of them and every tools/list answer is
\* the catalog.
C23_CatalogAfterStartup ==
    Serving =>
       /\ Cardinality(get_available_tools(tools)) = 11
       /\ \A c \in Tasks : ToolsListed(c) => resp[c].detail = "catalog"

\* ------------------------------------------------------------------------
\* C28 - update_card and the due field

\* C28: an omitted due sends no due parameter, an explicit null sends a
\* due parameter that clears the date, a timestamp is sent in ISO format.
C28_DueThreeCases ==
    \A c \in Tasks :
       LET q == query[c] IN
          /\ q.args["due"] = "omitted" => q.params["due"] = "absent"
          /\ q.args["due"] = "null" => q.params["due"] # "absent"
          /\ q.args["due"] = "value" => q.params["due"] = "iso"

\* ------------------------------------------------------------------------
\* C24 - catalog and handler table

\* the call carries every required parameter (for get_cards, one of its
\* two alternatives)
MinimalValid(c) ==
    /\ call[c].name \in ToolNames
    /\ Required(call[c].name) \subseteq call[c].present
    /\ call[c].name = "get_cards" => call[c].present # {}

Validated(c) == Len(sent[c]) >= 1 /\ Status(sent[c][1].outcome) = "200"

\* C24: the names of the catalog are exactly the names execute_tool
\* routes to a handler, and a call of a catalog name with its required
\* arguments, once the credentials are validated, is answered neither
\* "Unknown tool" nor with a validation error of its arguments.
C24_CatalogIsHandlerTable ==
    /\ HandlerNames = ToolNames
    /\ \A c \in Tasks :
          Answered(c) /\ MinimalValid(c) /\ Validated(c) =>
             /\ resp[c] # UnknownTool
             /\ resp[c].detail # "ValidationError"

\* search_cards with its query went through to the upstream and succeeded
C24_Witness ==
    /\ Answered(Client)
    /\ call[Client].name = "search_cards"
    /\ call[Client].present = {"query"}
    /\ Succeeded(Client)

\* ------------------------------------------------------------------------
\* C25 - credentials are optional in every schema

CredentialParameters == {"api_key", "token"}

\* C25: no required list of a tool the server offers names api_key or
\* token.
C25_CredentialsOptional ==
    \A name \in get_available_tools(tools) :
       Required(name) \cap CredentialParameters = {}

\* the catalog was served, and a call without credentials in its
\* arguments was carried out
C25_Witness ==
    /\ Answered(Client)
    /\ call[Client].name \in ToolNames
    /\ call[Client].api_key = NONE
    /\ call[Client].token = NONE
    /\ Succeeded(Client)

\* ------------------------------------------------------------------------
\* C26 - a pair is never used partially

SentPair(s) == [api_key |-> s.key, token |-> s.token]

OnlyOneGiven(c) == Given(call[c].api_key) # Given(call[c].token)

\* C26: the key and the token of every upstream request come from one
\* source: both from the arguments, both from the cache entry or both
\* from one prompt.  When the call gives only one of the two, neither
\* part of the pair sent is the one given.
C26_PairNeverPartial ==
    \A c \in Tasks :
       \A i \in DOMAIN sent[c] :
          /\ SentPair(sent[c][i]) \in
                {[api_key |-> call[c].api_key, token |-> call[c].token],
                 EnvPair, PromptPair}
          /\ OnlyOneGiven(c) =>
                /\ SentPair(sent[c][i]) \in {EnvPair, PromptPair}
                /\ sent[c][i].key # call[c].api_key
                /\ sent[c][i].token # call[c].token

\* only the key was given; the cached pair was sent
C26_Witness ==
    /\ call[Client].api_key = "K1"
    /\ call[Client].token = NONE
    /\ Len(sent[Client]) = 2
    /\ SentPair(sent[Client][1]) = EnvPair
    /\ SentPair(sent[Client][2]) = EnvPair

\* ------------------------------------------------------------------------
\* C27 - 401 on the validation request

ValidationRefused(c) ==
    /\ Answered(c)
    /\ Len(sent[c]) = 1
    /\ sent[c][1].endpoint = "members/me"
    /\ sent[c][1].outcome = "401"

\* C27: when the upstream answers 401 to the validation request, the
\* response has result and no error, its payload has isError, and its
\* text says "Invalid credentials".
C27_InvalidCredentialsIsResult ==
    \A c \in Tasks :
       ValidationRefused(c) =>
          /\ resp[c].kind = "result"
          /\ "result" \in resp[c].keys
          /\ "error" \notin resp[c].keys
          /\ resp[c].isError
          /\ resp[c].text = "Invalid credentials"

C27_Witness ==
    /\ ValidationRefused(Client)
    /\ resp[Client].text = "Invalid credentials"
    /\ resp[Client].detail = "Unauthorized"

\* ------------------------------------------------------------------------
\* C29 - what rewrites the cache entry

Rewrites(h) == ExplicitPair(h) \/ (h.prompted /\ ~h.raised)

ServedFromCache(h) == ~ExplicitPair(h) /\ ~h.prompted /\ ~h.raised

\* C29: a resolution through the explicit pair or through the prompt
\* stores the pair it returns with the timestamp of the resolution; a
\* resolution served from the cache leaves entry and timestamp as they
\* were, and is served only within cache_duration of that timestamp.
C29_OnlyRewritesRefresh ==
    \A i \in DOMAIN hist :
       LET h == hist[i] IN
          /\ Rewrites(h) => h.after = Cache(h.ret, h.at)
          /\ ServedFromCache(h) =>
                /\ h.after = h.before
                /\ h.ret = h.before.cc
                /\ h.at - h.after.ts <= cache_duration
          /\ h.after.ts # h.before.ts => Rewrites(h) \/ h.prompted

\* an explicit resolution, then, later, one served from the cache: the
\* timestamp is still that of the first
C29_Witness ==
    /\ Len(hist) = 2
    /\ ExplicitPair(hist[1])
    /\ ServedFromCache(hist[2])
    /\ hist[2].at > hist[1].at
    /\ hist[2].after.ts = hist[1].at

\* ------------------------------------------------------------------------
\* C30 - no hand-shake gate

Listing(c) ==
    /\ Answered(c)
    /\ req[c].method \in {"tools/list", "resources/list", "prompts/list"}

InitializeHandled(c) ==
    pc[c] = "idle" /\ pc'[c] = "done" /\ req'[c].method = "initialize"

\* C30: tools/list, resources/list and prompts/list are answered with a
\* result that depends on the method and on the catalog alone (the two
\* stubs are always empty), and handling an initialize request changes
\* nothing a later request reads, so every response is the same with and
\* without it.
C30_NoHandshakeGate ==
    /\ [](\A c \in Tasks :
            Listing(c) =>
               /\ resp[c].kind = "result"
               /\ ~resp[c].isError
               /\ resp[c].detail =
                     IF req[c].method = "tools/list" /\ tools
                     THEN "catalog" ELSE "empty")
    /\ [][\A c \in Tasks :
            InitializeHandled(c) =>
               /\ UNCHANGED <<tools, initialized, startup>>
               /\ UNCHANGED limiterVars
               /\ UNCHANGED credVars
               /\ \A d \in Tasks \ {c} :
                     pc'[d] = pc[d] /\ resp'[d] = resp[d]]_vars

\* no initialize request was handled, the server is not initialized, and
\* the listing was answered
C30_Witness ==
    /\ ~initialized
    /\ pc[Peer] = "idle"
    /\ Listing(Client)
    /\ req[Client].method = "tools/list"
    /\ resp[Client].kind = "result"

\* ------------------------------------------------------------------------
\* C31 - a resolution that fails

ResolutionFailed(c) ==
    Answered(c) /\ resp[c] = ToolExecutionFailed("EOFError")

\* C31: a resolution fails only when the call gives no pair, the cache
\* has no valid entry and the prompt fails; the call is then answered
\* with an operation error, nothing was sent upstream and the cache is
\* empty; and a resolution that reached the prompt always comes to an
\* end.
C31_ResolutionFailsCleanly ==
    /\ [](\A c \in Tasks :
            ResolutionFailed(c) =>
               /\ ~(Given(call[c].api_key) /\ Given(call[c].token))
               /\ sent[c] = <<>>
               /\ cached_credentials = NoCredentials
               /\ credentials_timestamp = NoTime
               /\ resp[c].kind = "result"
               /\ resp[c].isError)
    /\ \A c \in Tasks : WaitingForInput(c) ~> ~WaitingForInput(c)

\* ------------------------------------------------------------------------
\* C32 - clear_credentials

\* a step of clear_credentials(): the only step that changes the cache
\* without a resolution and without the clock
ClearStep == hist' = hist /\ now' = now

NothingCached ==
    cached_credentials = NoCredentials /\ credentials_timestamp = NoTime

\* C32: clear_credentials() leaves no pair and no timestamp, whatever was
\* cached; a resolution without an explicit pair that finds the cache
\* empty goes to the prompt and cannot return an earlier cached pair.
C32_ClearWipes ==
    /\ [][ClearStep =>
            /\ cached_credentials' = NoCredentials
            /\ credentials_timestamp' = NoTime]_vars
    /\ [](\A i \in DOMAIN hist :
            hist[i].before = EmptyCache /\ ~ExplicitPair(hist[i]) =>
               /\ hist[i].prompted
               /\ hist[i].ret \in {PromptPair, NoCredentials})

\* a pair was cached by an explicit resolution; at the same instant a
\* resolution without credentials found the cache empty and prompted
C32_Witness ==
    /\ Len(hist) = 2
    /\ ExplicitPair(hist[1])
    /\ hist[1].after # EmptyCache
    /\ hist[2].at = hist[1].at
    /\ hist[2].before = EmptyCache
    /\ ~ExplicitPair(hist[2])
    /\ hist[2].prompted
    /\ hist[2].ret = PromptPair

\* ------------------------------------------------------------------------
\* C36 - the timestamp list

NonDecreasing(s) == \A i, j \in DOMAIN s : i < j => s[i] <= s[j]

StillInWindow(s, t) == \A i \in DOMAIN s : t - s[i] < time_window

\* the entries of s that are still inside the window at t, in order
Trailing(s, t) == SelectSeq(s, LAMBDA x : t - x < time_window)

\* a step in which a task passes the admission check of acquire()
AdmissionCheck ==
    \E c \in Tasks : pc[c] = "acquire" /\ pc'[c] # "acquire"

\* C36: the list is always in non-decreasing order with at most
\* max_requests entries; an admission appends exactly its own time to the
\* list; and every admission check leaves no entry that has left the
\* trailing window.
C36_ListOrderedAndBounded ==
    /\ [](NonDecreasing(requests) /\ Len(requests) <= max_requests)
    /\ [][AdmissionCheck =>
            /\ StillInWindow(requests', now)
            /\ IF AdmissionStep
               THEN /\ requests' = Append(Trailing(requests, now), now)
                    /\ admitted' = Append(admitted, now)
               ELSE requests' = Trailing(requests, now)]_vars

\* the list is full again after earlier admissions were pruned from it
C36_Witness ==
    /\ Len(requests) = max_requests
    /\ Len(admitted) > max_requests
    /\ requests[1] < requests[Len(requests)]

\* ------------------------------------------------------------------------
\* C37 - the cache entry is whole or absent

\* C37: pair and timestamp are both set or both absent, and a stored pair
\* has a non-empty api_key and a non-empty token.
C37_EntryWholeOrAbsent ==
    /\ (cached_credentials = NoCredentials) <=>
          (credentials_timestamp = NoTime)
    /\ cached_credentials # NoCredentials =>
          /\ Given(cached_credentials.api_key)
          /\ Given(cached_credentials.token)
          /\ credentials_timestamp \in 0..now

\* an entry was found expired and dropped, and the prompt that followed
\* failed: nothing is cached
C37_Witness ==
    /\ Len(hist) >= 1
    /\ FoundExpired(hist[Len(hist)])
    /\ hist[Len(hist)].raised
    /\ hist[Len(hist)].at = now
    /\ NothingCached

\* ------------------------------------------------------------------------
\* C33 - validation before operation

\* C33: the first upstream request of a tool call is the validation
\* request, made with the resolved pair; the operation request follows
\* only a validation that succeeded, carries the same pair, and brings
\* the admissions of the call to two; a call whose validation failed
\* sent nothing else and took one admission.
C33_ValidationBeforeOperation ==
    \A c \in Tasks :
       /\ Len(sent[c]) <= 2
       /\ Len(sent[c]) >= 1 =>
             /\ sent[c][1].endpoint = "members/me"
             /\ SentPair(sent[c][1]) = creds[c]
       /\ Len(sent[c]) = 2 =>
             /\ sent[c][1].outcome \in {"200", "200text"}
             /\ sent[c][2].endpoint = call[c].name
             /\ SentPair(sent[c][2]) = SentPair(sent[c][1])
             /\ Len(admitted) = 2
       /\ (/\ Answered(c)
           /\ Len(sent[c]) = 1
           /\ sent[c][1].outcome \notin {"200", "200text"}) =>
             Len(admitted) = 1

\* validation was refused with 403: one request, one admission
C33_Witness ==
    /\ Answered(Client)
    /\ Len(sent[Client]) = 1
    /\ sent[Client][1].outcome = "403"
    /\ Len(admitted) = 1

\* ------------------------------------------------------------------------
\* C34 - check-then-fill of the cache

Prompting == {c \in Tasks : WaitingForInput(c)}

ResolvedAtOnce(c) ==
    /\ pc[c] = "idle"
    /\ pc'[c] = "acquire"
    /\ ~(Given(call'[c].api_key) /\ Given(call'[c].token))

ValidationFailed(c) ==
    /\ Answered(c)
    /\ Len(sent[c]) = 1
    /\ sent[c][1].endpoint = "members/me"
    /\ sent[c][1].outcome \notin {"200", "200text"}

\* C35: whatever makes the validation request fail, the call is answered
\* with the operation error "Invalid credentials" and the operation is
\* not attempted.
C35_ValidationFailureIsInvalidCredentials ==
    \A c \in Tasks :
       ValidationFailed(c) =>
          /\ resp[c].kind = "result"
          /\ resp[c].isError
          /\ resp[c].text = "Invalid credentials"

\* ------------------------------------------------------------------------
\* C38 - while the registry is not constructed

NamedToolCall(c) ==
    /\ Answered(c)
    /\ req[c].method = "tools/call"
    /\ req[c].params # "other"
    /\ Given(call[c].name)

\* C38: while tools is not constructed, tools/list is answered with an
\* empty list, a tools/call that names a tool is answered with the error
\* -32603 "Tools not initialized", and no credential is resolved, no
\* prompt shown, no admission taken and nothing sent upstream.
C38_WithoutRegistry ==
    ~tools =>
       /\ \A c \in Tasks :
             /\ ToolsListed(c) =>
                   resp[c].kind = "result" /\ resp[c].detail = "empty"
             /\ NamedToolCall(c) =>
                   /\ resp[c].kind = "error"
                   /\ resp[c].code = -32603
                   /\ resp[c].text = "Tools not initialized"
             /\ sent[c] = <<>>
             /\ pc[c] \in {"idle", "done"}
       /\ prompts = 0
       /\ NothingCached
       /\ admitted = <<>>

\* without a registry, one client's tool call was refused and the other
\* client's listing was answered
C38_Witness ==
    /\ ~tools
    /\ NamedToolCall(Client)
    /\ resp[Client].text = "Tools not initialized"
    /\ ToolsListed(Peer)
    /\ resp[Peer].detail = "empty"

\* ------------------------------------------------------------------------
\* C39 - statuses other than 200

NonOkStatuses == {"201", "401", "403", "404", "429", "500"}

\* C39: an answer whose status is not 200, 201 included, is a failure
\* that carries the status and the raw body, and the tool call is
\* answered with an operation error.
C39_Only200Succeeds ==
    \A c \in Tasks :
       LastOutcome(c) \in NonOkStatuses =>
          /\ last[c].exc = "TrelloAPIError"
          /\ last[c].status = LastOutcome(c)
          /\ last[c].data = "body"
          /\ Answered(c)
          /\ resp[c].kind = "result"
          /\ resp[c].isError

\* create_card was answered 201 and the call was reported as failed
C39_Witness ==
    /\ Answered(Client)
    /\ call[Client].name = "create_card"
    /\ Len(sent[Client]) = 2
    /\ LastOutcome(Client) = "201"
    /\ resp[Client].isError
    /\ resp[Client].text = "Failed to"
====
